---------------------------- MODULE Spec2Model ----------------------------
(***************************************************************************)
(* Digital twin backend: the LangGraph question-answering pipeline of      *)
(* src/run_agent.py, the index builder of src/create_database.py and the   *)
(* FastAPI endpoint of src/api/main.py.                                    *)
(*                                                                         *)
(* Text is modelled as a sequence of tokens.  A token is a run of          *)
(* characters that the code never takes apart (a word, a label, one        *)
(* whitespace or punctuation character), so that the string operations of  *)
(* the code (strip, split, replace, startswith, lower, join, f-strings)    *)
(* are computed on the sequence the way Python computes them on the        *)
(* characters.                                                             *)
(***************************************************************************)
EXTENDS Integers, Sequences, FiniteSets, TLC

(***************************************************************************)
(* Bounds of the model.                                                    *)
(***************************************************************************)
\* longest text that follows the TRANSLATED_QUERY: label in a classification response
MaxQueryLen == 2
\* longest text that follows the ROUTE: label in a classification response
MaxRouteLen == 2
\* number of ask calls made on one DigitalTwin
MaxAsks == 2
\* number of runs of the index builder
MaxBuilds == 3
\* number of requests to the ask endpoint
MaxRequests == 3
\* longest rewrite (in tokens) the cleanup is studied on
MaxRewriteLen == 4
\* number of requests the server has in flight at once
MaxConcurrent == 3

(***************************************************************************)
(* Strings                                                                 *)
(***************************************************************************)
SP == " "
NL == "\n"
BAR == "|"
TQ_LABEL == "TRANSLATED_QUERY:"
ROUTE_LABEL == "ROUTE:"
ROUTE_TAG == "[Route:"

\* str.isspace for one token
IsSpace(t) == t \in {SP, NL}

RECURSIVE LStrip(_)
\* str.lstrip()
LStrip(s) ==
    IF s = <<>> THEN s
    ELSE IF IsSpace(Head(s)) THEN LStrip(Tail(s)) ELSE s

RECURSIVE RStrip(_)
\* str.rstrip()
RStrip(s) ==
    IF s = <<>> THEN s
    ELSE IF IsSpace(s[Len(s)]) THEN RStrip(SubSeq(s, 1, Len(s) - 1)) ELSE s

\* str.strip()
Strip(s) == RStrip(LStrip(s))

\* the index of the first occurrence of token t in s, 0 when there is none
IndexOf(s, t) ==
    IF \E i \in 1..Len(s) : s[i] = t
    THEN CHOOSE i \in 1..Len(s) : s[i] = t /\ \A j \in 1..(i - 1) : s[j] # t
    ELSE 0

RECURSIVE Split(_, _)
\* str.split(sep): the pieces between the occurrences of sep, the empty ones kept
Split(s, sep) ==
    LET i == IndexOf(s, sep)
    IN  IF i = 0 THEN <<s>>
        ELSE <<SubSeq(s, 1, i - 1)>> \o Split(SubSeq(s, i + 1, Len(s)), sep)

\* str.replace(t, ''): every occurrence of t removed
Remove(s, t) == SelectSeq(s, LAMBDA x : x # t)

\* str.startswith(t)
StartsWith(s, t) == Len(s) > 0 /\ s[1] = t

\* t in s
Contains(s, t) == \E i \in 1..Len(s) : s[i] = t

\* str.lower() of one token
LowerTok(t) ==
    CASE t = "Medium" -> "medium"
      [] t = "LinkedIn" -> "linkedin"
      [] t = TQ_LABEL -> "translated_query:"
      [] t = ROUTE_LABEL -> "route:"
      [] t = ROUTE_TAG -> "[route:"
      [] OTHER -> t

\* str.lower()
Lower(s) == [i \in DOMAIN s |-> LowerTok(s[i])]

RECURSIVE Join(_, _)
\* sep.join(parts)
Join(parts, sep) ==
    IF parts = <<>> THEN <<>>
    ELSE IF Len(parts) = 1 THEN parts[1]
    ELSE parts[1] \o sep \o Join(Tail(parts), sep)

\* every sequence over S of length at most n
SeqUpTo(S, n) == UNION {[1..k -> S] : k \in 0..n}


(***************************************************************************)
(* Inputs: the questions asked, the documents, and what the hosted         *)
(* services (language model, vector store) may answer.                     *)
(***************************************************************************)
Questions == {<<"Where", SP, "study">>, <<"Welche", SP, "Projekte">>}

\* exceptions of the external clients (network, quota, ...)
UPSTREAM_ERROR == "UpstreamError"

\* the text after a TRANSLATED_QUERY: label
QueryTok == {SP, "study", TQ_LABEL}
\* the text after a ROUTE: label
RouteTok == {SP, BAR, "Medium", "linkedin", "github", "general", "blog"}

\* the first line of a classification response: an unlabeled line, or a
\* TRANSLATED_QUERY: line (possibly indented)
QueryLines ==
    {<<"unsure">>}
    \cup {pre \o body : pre \in {<<TQ_LABEL>>, <<SP, TQ_LABEL>>},
                        body \in SeqUpTo(QueryTok, MaxQueryLen)}

\* its ROUTE: line (possibly indented)
RouteLines ==
    {pre \o body : pre \in {<<ROUTE_LABEL>>, <<SP, ROUTE_LABEL>>},
                   body \in SeqUpTo(RouteTok, MaxRouteLen)}

\* response.content of the classification call: either line may be missing
ClassifierResponses ==
    {<<>>} \cup QueryLines \cup RouteLines
    \cup {q \o <<NL>> \o r : q \in QueryLines, r \in RouteLines}

(***************************************************************************)
(* Messages (langchain_core.messages)                                      *)
(***************************************************************************)
HumanMessage(c) == [type |-> "human", content |-> c]
SystemMessage(c) == [type |-> "system", content |-> c]
AIMessage(c) == [type |-> "ai", content |-> c]

(***************************************************************************)
(* router_node and get_route                                               *)
(***************************************************************************)
RECURSIVE ParseLines(_, _, _)
\* the for loop of router_node over the lines of the response: the last
\* labeled line of each kind wins
ParseLines(lines, translated_query, route) ==
    IF lines = <<>> THEN [translated_query |-> translated_query, route |-> route]
    ELSE LET line == Head(lines)
         IN  IF StartsWith(line, TQ_LABEL)
             THEN ParseLines(Tail(lines), Strip(Remove(line, TQ_LABEL)), route)
             ELSE IF StartsWith(line, ROUTE_LABEL)
             THEN ParseLines(Tail(lines), translated_query,
                             Lower(Strip(Remove(line, ROUTE_LABEL))))
             ELSE ParseLines(Tail(lines), translated_query, route)

\* the parse of router_node: translated_query defaults to the user query,
\* route to "general"
ParseResponse(user_query, content) ==
    ParseLines(Split(Strip(content), NL), user_query, <<"general">>)

\* f"[Route: {route} | Query: {translated_query}]"
RouteMarker(route, translated_query) ==
    <<ROUTE_TAG, SP>> \o route \o <<SP, BAR, SP, "Query:", SP>>
        \o translated_query \o <<"]">>

\* router_node: the state it returns, given the classification response
router_node(msgs, content) ==
    LET user_query == msgs[Len(msgs)].content
        parsed == ParseResponse(user_query, content)
    IN  [english_query |-> parsed.translated_query,
         messages |-> Append(msgs,
             SystemMessage(RouteMarker(parsed.route, parsed.translated_query)))]

\* get_route: the route read back from the last message
get_route(msgs) ==
    LET last_msg == msgs[Len(msgs)].content
    IN  IF Contains(last_msg, ROUTE_TAG)
        THEN Strip(Split(Split(last_msg, ROUTE_TAG)[2], BAR)[1])
        ELSE <<"general">>


(***************************************************************************)
(* Documents and the vector store                                          *)
(***************************************************************************)
\* the files load_documents can find under data_processed, one record each
DocUniverse ==
    {[source |-> "linkedin", content |-> "profile.json"],
     [source |-> "github", content |-> "readme.md"],
     [source |-> "medium", content |-> "article.md"]}

\* the parameters of the search calls
K_LINKEDIN == 3
K_GITHUB == 8
K_MEDIUM == 8
FETCH_K_MEDIUM == 20
K_GENERAL == 8
NO_FILTER == "none"

Min(a, b) == IF a < b THEN a ELSE b

\* the chunks of a collection that a filter lets through; a collection maps
\* each document to the number of chunks holding it
Matching(coll, filter) ==
    {c \in DocUniverse \X (1..MaxBuilds) :
        /\ c[2] <= coll[c[1]]
        /\ (filter = NO_FILTER \/ c[1].source = filter)}

\* what a search of the collection may return: the k nearest matching chunks
\* in the order of their distance to the query, which the embedding decides
SearchResults(coll, k, filter) ==
    LET m == Matching(coll, filter)
        n == Min(k, Cardinality(m))
    IN  {[i \in 1..n |-> f[i][1]] :
            f \in {g \in [1..n -> m] : \A i, j \in 1..n : i # j => g[i] # g[j]}}

\* a call on the vector store as the strategies issue it
similarity_search(query, k, filter) ==
    [method |-> "similarity_search", query |-> query, k |-> k,
     fetch_k |-> 0, filter |-> filter]
max_marginal_relevance_search(query, k, fetch_k, filter) ==
    [method |-> "max_marginal_relevance_search", query |-> query, k |-> k,
     fetch_k |-> fetch_k, filter |-> filter]

\* [doc.page_content for doc in results]
PageContents(results) == [i \in DOMAIN results |-> <<results[i].content>>]

\* "\n\n".join(...)
JoinParagraphs(parts) == Join(parts, <<NL, NL>>)

(***************************************************************************)
(* The retrieval strategies: the message each appends, given the results   *)
(***************************************************************************)
\* retrieve_linkedin: the search it issues and the state it returns
linkedin_call(query) == similarity_search(query, K_LINKEDIN, "linkedin")
retrieve_linkedin(msgs, results) ==
    Append(msgs, SystemMessage(<<"[LinkedIn Context]", NL>>
                               \o JoinParagraphs(PageContents(results))))

\* retrieve_github
github_call(query) == similarity_search(query, K_GITHUB, "github")
retrieve_github(msgs, results) ==
    Append(msgs, SystemMessage(<<"[GitHub Projects Context]", NL>>
                               \o JoinParagraphs(PageContents(results))))

\* retrieve_medium: the diversity-aware call, the call of the except branch,
\* and the state it returns
medium_call(query) ==
    max_marginal_relevance_search(query, K_MEDIUM, FETCH_K_MEDIUM, "medium")
\* the fallback with the k of another strategy
medium_fallback_call_other_k(query) == similarity_search(query, K_LINKEDIN, "medium")
medium_fallback_call(query) == similarity_search(query, K_MEDIUM, "medium")
retrieve_medium(msgs, results) ==
    IF results # <<>>
    THEN Append(msgs, SystemMessage(<<"[Medium Articles Context]", NL>>
                                    \o JoinParagraphs(PageContents(results))))
    ELSE Append(msgs, SystemMessage(<<"[Medium Articles Context]", NL,
                                      "No articles found.">>))

\* f"[{source.title()} Context]\n"
GeneralHeading(source) ==
    CASE source = "linkedin" -> <<"[Linkedin Context]", NL>>
      [] source = "github" -> <<"[Github Context]", NL>>
      [] source = "medium" -> <<"[Medium Context]", NL>>
      [] OTHER -> <<"[Unknown Context]", NL>>

RECURSIVE SourcesInOrder(_, _)
\* the keys of by_source, in the order of their first result
SourcesInOrder(results, seen) ==
    IF results = <<>> THEN seen
    ELSE IF \E i \in DOMAIN seen : seen[i] = Head(results).source
         THEN SourcesInOrder(Tail(results), seen)
         ELSE SourcesInOrder(Tail(results), Append(seen, Head(results).source))

\* retrieve_general: the results grouped by source, one headed block each
general_call(query) == similarity_search(query, K_GENERAL, NO_FILTER)
retrieve_general(msgs, results) ==
    LET sources == SourcesInOrder(results, <<>>)
        chunks(src) == SelectSeq(results, LAMBDA d : d.source = src)
        contexts == [i \in DOMAIN sources |->
                        GeneralHeading(sources[i])
                        \o JoinParagraphs(PageContents(chunks(sources[i])))]
    IN  Append(msgs, SystemMessage(JoinParagraphs(contexts)))


(***************************************************************************)
(* speech_optimization_node: the deterministic cleanup of the rewrite      *)
(***************************************************************************)
\* whether s[from..to] holds only token d (and lies within s)
AllAre(s, from, to, d) == to <= Len(s) /\ \A i \in from..to : s[i] = d

\* the end of a match of  d{n} ([^d]+) d{n}  at the start of s, 0 when none
DelimitedEnd(s, d, n) ==
    IF ~AllAre(s, 1, n, d) THEN 0
    ELSE LET rest == SubSeq(s, n + 1, Len(s))
             j == IndexOf(rest, d) + n
         IN  IF j > n + 1 /\ AllAre(s, j, j + n - 1, d) THEN j + n - 1 ELSE 0

RECURSIVE SubDelimited(_, _, _)
\* re.sub(r'd{n}([^d]+)d{n}', r'\1', s): the matches are taken from the left
\* and do not overlap
SubDelimited(s, d, n) ==
    IF s = <<>> THEN <<>>
    ELSE LET m == DelimitedEnd(s, d, n)
         IN  IF m = 0 THEN <<Head(s)>> \o SubDelimited(Tail(s), d, n)
             ELSE SubSeq(s, n + 1, m - n) \o SubDelimited(SubSeq(s, m + 1, Len(s)), d, n)

RECURSIVE RunLength(_, _)
\* the length of the run of tokens of the set S at the start of s
RunLength(s, S) ==
    IF s = <<>> \/ Head(s) \notin S THEN 0 ELSE 1 + RunLength(Tail(s), S)

IsHash == {"#"}
Spaces == {SP, NL}

\* the backquote character
TICK == "<backquote>"

RECURSIVE SubHeadings(_)
\* re.sub(r'#{1,6}\s+', '', s)
SubHeadings(s) ==
    IF s = <<>> THEN <<>>
    ELSE LET h == RunLength(s, IsHash)
             w == RunLength(SubSeq(s, h + 1, Len(s)), Spaces)
         IN  IF h >= 1 /\ h <= 6 /\ w >= 1
             THEN SubHeadings(SubSeq(s, h + w + 1, Len(s)))
             ELSE <<Head(s)>> \o SubHeadings(Tail(s))

IsPunct(t) == t \in {"!", ",", "."}
IsHereTail == {"'s", SP, NL}
\* the words that begin with the letter s, which ['s\s] matches too
SWords == {"She", "she", "Sure", "sure", "study", "studied"}
\* whether  ['s\s]+  matches at the start of what follows Here
HereTailMatches(rest) ==
    LET r == RunLength(rest, IsHereTail)
    IN  r >= 1 \/ (Len(rest) > r /\ rest[r + 1] \in SWords)

\* re.sub(r'^Here[\'s\s]+.*?:\s*', '', s, flags=re.IGNORECASE): the run of
\* 's and whitespace after Here, then the text up to the first colon, which
\* must be on the same line, then the whitespace after it
SubHere(s) ==
    IF ~(StartsWith(s, "Here") \/ StartsWith(s, "here")) THEN s
    ELSE LET r == RunLength(Tail(s), IsHereTail)
             after == SubSeq(s, r + 2, Len(s))
             c == IndexOf(after, ":")
         IN  IF HereTailMatches(Tail(s)) /\ c > 0 /\ ~Contains(SubSeq(after, 1, c), NL)
             THEN LStrip(SubSeq(after, c + 1, Len(after)))
             ELSE s

\* a match of  word[!,.]?\s+  at the start of s: whether there is one, and the
\* text left after it
AfterOpener(s, words) ==
    IF s = <<>> \/ Head(s) \notin words THEN [matched |-> FALSE, rest |-> s]
    ELSE LET t == IF Len(s) >= 2 /\ IsPunct(s[2]) THEN SubSeq(s, 3, Len(s)) ELSE Tail(s)
         IN  IF RunLength(t, Spaces) >= 1 THEN [matched |-> TRUE, rest |-> LStrip(t)]
             ELSE [matched |-> FALSE, rest |-> s]

\* whether  Here['s\s]+.*?:\s*  matches at the start of s
MatchesHere(s) ==
    /\ StartsWith(s, "Here") \/ StartsWith(s, "here")
    /\ LET r == RunLength(Tail(s), IsHereTail)
           after == SubSeq(s, r + 2, Len(s))
           c == IndexOf(after, ":")
       IN  HereTailMatches(Tail(s)) /\ c > 0 /\ ~Contains(SubSeq(after, 1, c), NL)

\* re.sub(r'^Sure[!,.]?\s+Here[\'s\s]+.*?:\s*', '', s, flags=re.IGNORECASE)
SubSureHere(s) ==
    LET o == AfterOpener(s, {"Sure", "sure"})
    IN  IF o.matched /\ MatchesHere(o.rest) THEN SubHere(o.rest) ELSE s

\* re.sub(r'^Okay[!,.]?\s+', ...), re.sub(r'^Alright[!,.]?\s+', ...)
SubOpener(s, words) == AfterOpener(s, words).rest

\* the cleanup of speech_optimization_node, in the order of the code
Cleanup(content) ==
    LET a == SubDelimited(content, "*", 2)
        b == SubDelimited(a, "*", 1)
        c == SubDelimited(b, TICK, 1)
        d == SubDelimited(c, "_", 1)
        e == SubHeadings(d)
        f == SubSureHere(e)
        g == SubHere(f)
        h == SubOpener(g, {"Okay", "okay"})
        i == SubOpener(h, {"Alright", "alright"})
    IN  Strip(i)

\* the rewrite appended after the raw answer
speech_optimization_node_appends(msgs, content) ==
    Append(msgs, AIMessage(Cleanup(content)))

\* speech_optimization_node: the last message replaced in place
speech_optimization_node(msgs, content) ==
    [msgs EXCEPT ![Len(msgs)] = AIMessage(Cleanup(content))]

\* the headings of the strategies' messages: the tokens that hold "Context]"
ContextHeadings ==
    {"[LinkedIn Context]", "[GitHub Projects Context]", "[Medium Articles Context]",
     "[Linkedin Context]", "[Github Context]", "[Medium Context]", "[Unknown Context]"}

\* "Context]" in content: within one token, or across a token that ends in
\* Context and the closing bracket after it
HasContextTag(content) ==
    \E i \in DOMAIN content :
        \/ content[i] \in ContextHeadings
        \/ content[i] = "Context" /\ i < Len(content) /\ content[i + 1] = "]"

\* answer_node, the loop that collects the contexts
contexts(msgs) ==
    LET kept == SelectSeq(msgs, LAMBDA msg : msg.type = "system" /\ HasContextTag(msg.content))
    IN  [i \in DOMAIN kept |-> kept[i].content]

\* "\n\n".join(contexts)
combined_context(msgs) == JoinParagraphs(contexts(msgs))

\* the fixed text of system_prompt, up to "CONTEXT:"
SYSTEM_INSTRUCTIONS == "You are a digital twin assistant ... CONTEXT:"

\* f"""...CONTEXT:\n{combined_context}"""
system_prompt(context) == <<SYSTEM_INSTRUCTIONS, NL>> \o context

\* answer_node: the messages passed to llm.invoke
answer_prompt(msgs, query) ==
    <<SystemMessage(system_prompt(combined_context(msgs))), HumanMessage(query)>>

\* answer_node: raw_answer set and one AIMessage appended
answer_node(msgs, content) ==
    [raw_answer |-> content, messages |-> Append(msgs, AIMessage(content))]

\* response.content of the generation call
RawAnswers == {<<"She", SP, "studied">>, <<"*", "*", "She", "*", "*", SP, "studied">>}

\* response.content of the rewrite call
SpeechResponses ==
    {<<"She", SP, "studied">>,
     <<"Sure", "!", SP, "Here", "'s", SP, "it", ":", SP, "*", "She", "*">>,
     <<"#", SP, "She", SP, "_", "studied", "_", NL>>}


(***************************************************************************)
(* State                                                                   *)
(***************************************************************************)
VARIABLES
    persist_dir,     \* the chroma_db directory: "absent", "empty" or "populated"
    collection,      \* the digital_twin collection: document -> number of chunks holding it
    data_processed,  \* the documents load_documents finds
    builds,          \* the runs of create_vector_store so far
    last_build,      \* what the last run was asked and did
    built,           \* whether some run has created the collection successfully
    twin,            \* the DigitalTwin of run_agent's __main__: "None" or "ready"
    pc,              \* the node of the graph the running ask call is at; "idle" between calls
    question,        \* the argument of the running (or last) ask call
    messages,        \* AgentState.messages
    english_query,   \* AgentState.english_query
    raw_answer,      \* AgentState.raw_answer
    result,          \* how the last ask call ended: its return value or its exception
    trace,           \* the nodes the running (or last) ask call has run, in order
    calls,           \* the vector-store calls it has issued, in order, with their outcome
    asks,            \* the ask calls started so far
    prompt,          \* the messages its answer node sent to the language model, <<>> before
    llm_response,    \* the classification response under study (SpecRouter)
    digital_twin,    \* api.main._digital_twin: "None" or "ready"
    tts_service,     \* api.main._tts_service: "None" or "ready"
    requests,        \* the requests to /api/ask served so far
    request,         \* the last request, with what happened while it was served
    response,        \* the response to it
    handlers,        \* the ask_question coroutines of the event loop: position and locals
    running,         \* the coroutine the event loop is running, 0 when it runs none
    instances,       \* per service, the objects its constructor has returned so far
    attempts         \* per service, the calls of its constructor so far

buildVars == <<persist_dir, collection, data_processed, builds, last_build, built>>
askVars == <<twin, pc, question, messages, english_query, raw_answer, result, trace,
             calls, asks, prompt>>
apiVars == <<digital_twin, tts_service, requests, request, response>>
loopVars == <<handlers, running, instances, attempts>>
vars == <<buildVars, askVars, apiVars, loopVars, llm_response>>

NoResult == [kind |-> "none", value |-> <<>>]
Returned(v) == [kind |-> "return", value |-> v]
Raised(e) == [kind |-> "raise", value |-> <<e>>]

NoBuild == [force |-> FALSE, outcome |-> "none", loaded |-> 0, added |-> 0]
NoRequest == [question |-> <<>>, user_id |-> "", index_ok |-> FALSE,
              upstream_ok |-> FALSE, error |-> "", answer |-> <<>>, audio |-> <<>>]
NoResponse == [status |-> 0]

EmptyCollection == [d \in DocUniverse |-> 0]

\* a request not yet received; digital_twin and tts_service are the locals of
\* ask_question (the number of the object they refer to, 0 when unbound)
NoFrame == [pc |-> "new", question |-> <<>>, user_id |-> "", digital_twin |-> 0,
            tts_service |-> 0, attempted |-> {}, response |-> NoResponse]
NoInstances == [digital_twin |-> 0, tts_service |-> 0]

\* the event loop before any request
LoopIdle ==
    /\ handlers = [r \in 1..MaxConcurrent |-> NoFrame]
    /\ running = 0
    /\ instances = NoInstances /\ attempts = NoInstances

\* the state of everything but the index
InitRest ==
    /\ builds = 0 /\ last_build = NoBuild /\ built = FALSE
    /\ twin = "None" /\ pc = "idle" /\ question = <<>>
    /\ messages = <<>> /\ english_query = <<>> /\ raw_answer = <<>>
    /\ result = NoResult /\ trace = <<>> /\ calls = <<>> /\ asks = 0
    /\ prompt = <<>>
    /\ digital_twin = "None" /\ tts_service = "None"
    /\ requests = 0 /\ request = NoRequest /\ response = NoResponse
    /\ llm_response = <<>>
    /\ LoopIdle

(***************************************************************************)
(* load_vector_store and DigitalTwin.__init__                              *)
(***************************************************************************)
\* load_vector_store: whether it raises FileNotFoundError
\* (not persist_dir.exists() or not any(persist_dir.iterdir()))
load_vector_store_raises(dir) == dir \in {"absent", "empty"}

\* twin = DigitalTwin() in __main__
DigitalTwinInit ==
    /\ twin = "None" /\ result = NoResult
    /\ IF load_vector_store_raises(persist_dir)
       THEN /\ result' = Raised("FileNotFoundError")
            /\ UNCHANGED twin
       ELSE /\ twin' = "ready"
            /\ UNCHANGED result
    /\ UNCHANGED <<buildVars, apiVars, loopVars, llm_response, prompt, pc, question, messages, english_query,
                   raw_answer, trace, calls, asks>>

(***************************************************************************)
(* create_graph: the compiled workflow                                     *)
(***************************************************************************)
\* add_edge(START, "router")
EntryPoint == "router"

\* the mapping of add_conditional_edges("router", get_route, {...})
Branches ==
    [linkedin |-> "linkedin", github |-> "github", medium |-> "medium",
     general |-> "general"]

\* the edges with a retry of the answer after the rewrite
EdgesWithRetry ==
    [linkedin |-> "answer", github |-> "answer", medium |-> "answer",
     general |-> "answer", answer |-> "speech_optimize", speech_optimize |-> "answer"]

\* the add_edge calls
Edges ==
    [linkedin |-> "answer", github |-> "answer", medium |-> "answer",
     general |-> "answer", answer |-> "speech_optimize", speech_optimize |-> "END"]

\* whether the conditional edge has a branch for the value get_route returned
HasBranch(route) == Len(route) = 1 /\ route[1] \in DOMAIN Branches

(***************************************************************************)
(* DigitalTwin.ask, one action per step of graph.invoke.                   *)
(*                                                                         *)
(* Every node changes state["messages"] in place and returns the state.    *)
(* The list it changes is the one the messages channel holds, and the      *)
(* add_messages reducer merges the returned list into it by message id,    *)
(* which adds and removes nothing: the list after a node is the list the   *)
(* node left.                                                              *)
(***************************************************************************)
\* the running ask call ends with exception e
Raise(e) ==
    /\ result' = Raised(e)
    /\ pc' = "idle"

\* node has run; the graph moves on along its edge
Advance(node) ==
    /\ trace' = Append(trace, node)
    /\ pc' = Edges[node]

\* a call that goes on with the conversation the last call left
AskOnSharedState(q) ==
    /\ pc = "idle" /\ twin = "ready" /\ asks < MaxAsks
    /\ asks' = asks + 1
    /\ question' = q
    /\ messages' = Append(messages, HumanMessage(q))
    /\ result' = NoResult
    /\ trace' = <<>>
    /\ calls' = <<>>
    /\ pc' = EntryPoint
    /\ prompt' = <<>>
    /\ UNCHANGED <<buildVars, apiVars, loopVars, llm_response, twin, english_query, raw_answer>>

\* ask(question): the fresh state, and the graph entered at START
Ask(q) ==
    /\ pc = "idle" /\ twin = "ready" /\ asks < MaxAsks
    /\ asks' = asks + 1
    /\ question' = q
    /\ messages' = <<HumanMessage(q)>>
    /\ english_query' = <<>>
    /\ raw_answer' = <<>>
    /\ result' = NoResult
    /\ trace' = <<>>
    /\ calls' = <<>>
    /\ pc' = EntryPoint
    /\ prompt' = <<>>
    /\ UNCHANGED <<buildVars, apiVars, loopVars, llm_response, twin>>

\* the router node
RunRouter ==
    /\ pc = "router"
    /\ \/ \E content \in ClassifierResponses :
            LET st == router_node(messages, content)
            IN  /\ english_query' = st.english_query
                /\ messages' = st.messages
                /\ trace' = Append(trace, "router")
                /\ pc' = "branch"
                /\ UNCHANGED result
       \/ /\ Raise(UPSTREAM_ERROR)
          /\ UNCHANGED <<english_query, messages, trace>>
    /\ UNCHANGED <<buildVars, apiVars, loopVars, llm_response, prompt, twin, question, raw_answer, calls, asks>>

\* the conditional edge after the router: KeyError when get_route returns a
\* value the mapping does not hold
Branch ==
    /\ pc = "branch"
    /\ LET route == get_route(messages)
       IN  IF HasBranch(route)
           THEN pc' = Branches[route[1]] /\ UNCHANGED result
           ELSE Raise("KeyError")
    /\ UNCHANGED <<buildVars, apiVars, loopVars, llm_response, prompt, twin, question, messages, english_query,
                   raw_answer, trace, calls, asks>>

\* a call on the vector store, logged with its outcome: "ok" and the results,
\* or "raise"
Logged(call, outcome, results) ==
    [method |-> call.method, query |-> call.query, k |-> call.k,
     fetch_k |-> call.fetch_k, filter |-> call.filter, outcome |-> outcome,
     results |-> results]

\* the state a single-search strategy returns
Retrieved(node, msgs, results) ==
    CASE node = "linkedin" -> retrieve_linkedin(msgs, results)
      [] node = "github" -> retrieve_github(msgs, results)
      [] node = "general" -> retrieve_general(msgs, results)

\* a strategy that issues one search and appends its results
Retrieve(node, call) ==
    /\ pc = node
    /\ \/ \E results \in SearchResults(collection, call.k, call.filter) :
            /\ calls' = Append(calls, Logged(call, "ok", results))
            /\ messages' = Retrieved(node, messages, results)
            /\ Advance(node)
            /\ UNCHANGED result
       \/ /\ calls' = Append(calls, Logged(call, "raise", <<>>))
          /\ Raise(UPSTREAM_ERROR)
          /\ UNCHANGED <<messages, trace>>
    /\ UNCHANGED <<buildVars, apiVars, loopVars, llm_response, prompt, twin, question, english_query, raw_answer, asks>>

RunLinkedin == Retrieve("linkedin", linkedin_call(english_query))
RunGithub == Retrieve("github", github_call(english_query))
RunGeneral == Retrieve("general", general_call(english_query))

\* the medium node: the diversity-aware search, and the plain search when it raised
RunMedium ==
    /\ pc = "medium"
    /\ LET mmr == medium_call(english_query)
           plain == medium_fallback_call(english_query)
       IN  \/ \E results \in SearchResults(collection, mmr.k, mmr.filter) :
                /\ calls' = Append(calls, Logged(mmr, "ok", results))
                /\ messages' = retrieve_medium(messages, results)
                /\ Advance("medium")
                /\ UNCHANGED result
           \/ \E results \in SearchResults(collection, plain.k, plain.filter) :
                /\ calls' = calls \o <<Logged(mmr, "raise", <<>>), Logged(plain, "ok", results)>>
                /\ messages' = retrieve_medium(messages, results)
                /\ Advance("medium")
                /\ UNCHANGED result
           \/ /\ calls' = calls \o <<Logged(mmr, "raise", <<>>), Logged(plain, "raise", <<>>)>>
              /\ Raise(UPSTREAM_ERROR)
              /\ UNCHANGED <<messages, trace>>
    /\ UNCHANGED <<buildVars, apiVars, loopVars, llm_response, prompt, twin, question, english_query, raw_answer, asks>>

\* the answer node: the prompt is built and sent, and the response stored
RunAnswer ==
    /\ pc = "answer"
    /\ prompt' = answer_prompt(messages, english_query)
    /\ \/ \E content \in RawAnswers :
            LET st == answer_node(messages, content)
            IN  /\ raw_answer' = st.raw_answer
                /\ messages' = st.messages
                /\ Advance("answer")
                /\ UNCHANGED result
       \/ /\ Raise(UPSTREAM_ERROR)
          /\ UNCHANGED <<raw_answer, messages, trace>>
    /\ UNCHANGED <<buildVars, apiVars, loopVars, llm_response, twin, question, english_query, calls, asks>>

\* the speech_optimize node
RunSpeechOptimize ==
    /\ pc = "speech_optimize"
    /\ \/ \E content \in SpeechResponses :
            /\ messages' = speech_optimization_node(messages, content)
            /\ Advance("speech_optimize")
            /\ UNCHANGED result
       \/ /\ Raise(UPSTREAM_ERROR)
          /\ UNCHANGED <<messages, trace>>
    /\ UNCHANGED <<buildVars, apiVars, loopVars, llm_response, prompt, twin, question, english_query, raw_answer,
                   calls, asks>>

\* END: ask returns result["messages"][-1].content
Return ==
    /\ pc = "END"
    /\ result' = Returned(messages[Len(messages)].content)
    /\ pc' = "idle"
    /\ UNCHANGED <<buildVars, apiVars, loopVars, llm_response, prompt, twin, question, messages, english_query,
                   raw_answer, trace, calls, asks>>

\* the index a DigitalTwin may find: none, an empty directory, or the collection
\* a first build leaves, holding each document found once (none, or all of them)
Init ==
    /\ data_processed \in {{}, DocUniverse}
    /\ \/ persist_dir \in {"absent", "empty"} /\ collection = EmptyCollection
          /\ data_processed = {}
       \/ /\ persist_dir = "populated"
          /\ collection = [d \in DocUniverse |-> IF d \in data_processed THEN 1 ELSE 0]
    /\ InitRest

Next ==
    \/ DigitalTwinInit
    \/ \E q \in Questions : Ask(q)
    \/ RunRouter
    \/ Branch
    \/ RunLinkedin
    \/ RunGithub
    \/ RunMedium
    \/ RunGeneral
    \/ RunAnswer
    \/ RunSpeechOptimize
    \/ Return

Spec == Init /\ [][Next]_vars


(***************************************************************************)
(* The router alone, on every classification response                      *)
(***************************************************************************)
\* router_node applied to the response drawn at the start
ApplyRouter ==
    /\ pc = "router"
    /\ LET st == router_node(messages, llm_response)
       IN  /\ english_query' = st.english_query
           /\ messages' = st.messages
    /\ trace' = Append(trace, "router")
    /\ pc' = "branch"
    /\ UNCHANGED <<buildVars, apiVars, loopVars, llm_response, prompt, twin, question, raw_answer,
                   result, calls, asks>>

InitRouter ==
    /\ persist_dir = "populated" /\ collection = EmptyCollection
    /\ data_processed = {}
    /\ builds = 0 /\ last_build = NoBuild /\ built = FALSE
    /\ twin = "ready" /\ pc = "router" /\ asks = 1
    /\ question \in Questions
    /\ llm_response \in ClassifierResponses
    /\ messages = <<HumanMessage(question)>>
    /\ english_query = <<>> /\ raw_answer = <<>>
    /\ result = NoResult /\ trace = <<>> /\ calls = <<>> /\ prompt = <<>>
    /\ digital_twin = "None" /\ tts_service = "None"
    /\ requests = 0 /\ request = NoRequest /\ response = NoResponse
    /\ LoopIdle

NextRouter == ApplyRouter \/ Branch

SpecRouter == InitRouter /\ [][NextRouter]_vars


(***************************************************************************)
(* The speech_optimize node alone, on every rewrite                        *)
(***************************************************************************)
\* the characters the cleanup is about, a blank and a word
MarkupTok == {"*", TICK, "_", "#"}
RewriteTok == MarkupTok \cup {SP, "She"}

\* response.content of the rewrite call: any text
RewriteResponses == SeqUpTo(RewriteTok, MaxRewriteLen)

\* speech_optimization_node applied to the rewrite drawn at the start
ApplySpeechOptimize ==
    /\ pc = "speech_optimize"
    /\ messages' = speech_optimization_node(messages, llm_response)
    /\ Advance("speech_optimize")
    /\ UNCHANGED <<buildVars, apiVars, loopVars, llm_response, prompt, twin, question, english_query,
                   raw_answer, result, calls, asks>>

\* an ask call that has run its answer stage, and the rewrite it will receive
InitSpeech ==
    /\ persist_dir = "populated" /\ collection = EmptyCollection
    /\ data_processed = {}
    /\ builds = 0 /\ last_build = NoBuild /\ built = FALSE
    /\ twin = "ready" /\ pc = "speech_optimize" /\ asks = 1
    /\ question \in Questions
    /\ raw_answer \in RawAnswers
    /\ llm_response \in RewriteResponses
    /\ english_query = question
    /\ messages = retrieve_general(
                      router_node(<<HumanMessage(question)>>, <<>>).messages, <<>>)
                  \o <<AIMessage(raw_answer)>>
    /\ result = NoResult /\ trace = <<"router", "general", "answer">>
    /\ calls = <<Logged(general_call(question), "ok", <<>>)>>
    /\ prompt = answer_prompt(SubSeq(messages, 1, 3), english_query)
    /\ digital_twin = "None" /\ tts_service = "None"
    /\ requests = 0 /\ request = NoRequest /\ response = NoResponse
    /\ LoopIdle

NextSpeech == ApplySpeechOptimize \/ Return

SpecSpeech == InitSpeech /\ [][NextSpeech]_vars


(***************************************************************************)
(* The pipeline up to the answer node, on questions and canonical queries  *)
(* that speak of a context                                                 *)
(***************************************************************************)
ContextQuestions == Questions \cup {<<"React", SP, "Context">>}

\* the text after a TRANSLATED_QUERY: label
ContextQueryTok == {SP, "study", "Context", "]"}

\* the routes named after a ROUTE: label
ContextRoutes == {"linkedin", "github", "medium", "general", "blog"}

\* response.content of the classification call: either line may be missing
ContextResponses ==
    LET queries == {<<TQ_LABEL>> \o body : body \in SeqUpTo(ContextQueryTok, MaxQueryLen)}
        routes == {<<ROUTE_LABEL, SP, r>> : r \in ContextRoutes}
    IN  {<<>>} \cup queries \cup routes
        \cup {q \o <<NL>> \o r : q \in queries, r \in routes}

\* an ask call about to run its router, the response the router will receive,
\* and the index: empty, or one chunk per document
InitContext ==
    /\ persist_dir = "populated"
    /\ data_processed \in {{}, DocUniverse}
    /\ collection = [d \in DocUniverse |-> IF d \in data_processed THEN 1 ELSE 0]
    /\ builds = 0 /\ last_build = NoBuild /\ built = FALSE
    /\ twin = "ready" /\ pc = "router" /\ asks = 1
    /\ question \in ContextQuestions
    /\ llm_response \in ContextResponses
    /\ messages = <<HumanMessage(question)>>
    /\ english_query = <<>> /\ raw_answer = <<>>
    /\ result = NoResult /\ trace = <<>> /\ calls = <<>> /\ prompt = <<>>
    /\ digital_twin = "None" /\ tts_service = "None"
    /\ requests = 0 /\ request = NoRequest /\ response = NoResponse
    /\ LoopIdle

NextContext ==
    \/ ApplyRouter
    \/ Branch
    \/ RunLinkedin
    \/ RunGithub
    \/ RunMedium
    \/ RunGeneral
    \/ RunAnswer

SpecContext == InitContext /\ [][NextContext]_vars


(***************************************************************************)
(* create_database.py: load_documents and create_vector_store              *)
(***************************************************************************)
\* load_documents: one record per file found
load_documents(found) == found

\* the early return taken for an empty directory only
create_vector_store_skips_empty(force_recreate, dir) ==
    ~force_recreate /\ dir = "empty"

\* the early return of create_vector_store:
\* not force_recreate and persist_dir.exists() and any(persist_dir.iterdir())
create_vector_store_skips(force_recreate, dir) ==
    ~force_recreate /\ dir = "populated"

\* Chroma.from_texts(texts, ..., collection_name, persist_directory): the
\* collection of that name in the directory is opened, or created when there
\* is none, and one chunk per text is added to it under a fresh id
from_texts(coll, documents) ==
    [d \in DocUniverse |-> coll[d] + (IF d \in documents THEN 1 ELSE 0)]

\* python -m src.create_database [--force]
CreateVectorStore(force_recreate) ==
    /\ builds < MaxBuilds
    /\ builds' = builds + 1
    /\ IF create_vector_store_skips(force_recreate, persist_dir)
       THEN /\ last_build' = [force |-> force_recreate, outcome |-> "skipped",
                              loaded |-> 0, added |-> 0]
            /\ UNCHANGED <<persist_dir, collection, built>>
       ELSE LET documents == load_documents(data_processed)
                n == Cardinality(documents)
            IN  \/ /\ collection' = from_texts(collection, documents)
                   /\ persist_dir' = "populated"
                   /\ built' = TRUE
                   /\ last_build' = [force |-> force_recreate, outcome |-> "created",
                                     loaded |-> n, added |-> n]
                \* the embedding service raises: nothing is added; the client may
                \* have created its files in the directory already
                \/ /\ persist_dir' \in {persist_dir, "populated"}
                   /\ last_build' = [force |-> force_recreate, outcome |-> "failed",
                                     loaded |-> n, added |-> 0]
                   /\ UNCHANGED <<collection, built>>
    /\ UNCHANGED <<data_processed, askVars, apiVars, loopVars, llm_response>>

(***************************************************************************)
(* api/main.py: the ask endpoint                                           *)
(***************************************************************************)
UserIds == {"anonymous", "u1"}

\* the parameters of DigitalTwin.ask besides self
AskParameters == {"question"}
\* the arguments of the call in ask_question:
\* digital_twin.ask(request.question, user_id=request.user_id)
AskCallPositional == 1
AskCallKeywords == {"user_id"}

\* whether Python can bind the call's arguments to the parameters
CallBinds(parameters, positional, keywords) ==
    /\ positional <= Cardinality(parameters)
    /\ keywords \subseteq parameters
    /\ positional + Cardinality(keywords) = Cardinality(parameters)

\* str(e) of the exceptions
MSG_NO_INDEX == "Vector store not found at chroma_db"
MSG_TYPE_ERROR == "DigitalTwin.ask() got an unexpected keyword argument 'user_id'"
MSG_UPSTREAM == "upstream service error"
MSG_KEY_ERROR == "KeyError"

\* how a DigitalTwin.ask call whose arguments bind may end
AskOutcomes ==
    {Returned(Cleanup(r)) : r \in SpeechResponses}
    \cup {Raised(MSG_UPSTREAM), Raised(MSG_KEY_ERROR)}

\* the WAV files text_to_audio may read back
AudioBytes == {<<82, 73, 70, 70>>, <<0, 255>>}

HexDigits == <<"0", "1", "2", "3", "4", "5", "6", "7", "8", "9",
               "a", "b", "c", "d", "e", "f">>

RECURSIVE Hex(_)
\* bytes.hex(): two lowercase digits per byte
Hex(bytes) ==
    IF bytes = <<>> THEN <<>>
    ELSE <<HexDigits[(Head(bytes) \div 16) + 1], HexDigits[(Head(bytes) % 16) + 1]>>
         \o Hex(Tail(bytes))

\* the return statement of ask_question
success_response(answer_text, audio_bytes) ==
    [status |-> 200, text |-> answer_text, audio |-> Hex(audio_bytes)]

\* an answer without audio in place of the error
partial_response(message) == [status |-> 200, text |-> <<message>>]

\* the except branch: HTTPException(status_code=500, detail=str(e))
error_response(message) == [status |-> 500, detail |-> message]

\* POST /api/ask: the handler has no await, so it runs to its end before
\* another request is served.  twin_ok, tts_ok: whether the constructors'
\* upstream calls succeed, if made; outcome: how ask ends, if its call binds;
\* audio: what text_to_audio returns, <<>> standing for its exception
ask_question(q, user_id, twin_ok, tts_ok, outcome, audio) ==
    LET e_twin ==
            IF digital_twin # "None" THEN ""
            ELSE IF load_vector_store_raises(persist_dir) THEN MSG_NO_INDEX
            ELSE IF ~twin_ok THEN MSG_UPSTREAM ELSE ""
        e_tts ==
            IF e_twin # "" \/ tts_service # "None" THEN ""
            ELSE IF ~tts_ok THEN MSG_UPSTREAM ELSE ""
        reached_ask == e_twin = "" /\ e_tts = ""
        binds == CallBinds(AskParameters, AskCallPositional, AskCallKeywords)
        e_ask ==
            IF ~reached_ask THEN ""
            ELSE IF ~binds THEN MSG_TYPE_ERROR
            ELSE IF outcome.kind = "raise" THEN outcome.value[1] ELSE ""
        reached_tts == reached_ask /\ e_ask = ""
        e_audio == IF reached_tts /\ audio = <<>> THEN MSG_UPSTREAM ELSE ""
        errors == SelectSeq(<<e_twin, e_tts, e_ask, e_audio>>, LAMBDA e : e # "")
        error == IF errors = <<>> THEN "" ELSE errors[1]
        answer_text == IF reached_tts THEN outcome.value ELSE <<>>
    IN  /\ requests < MaxRequests
        /\ requests' = requests + 1
        /\ digital_twin' = IF e_twin = "" THEN "ready" ELSE digital_twin
        /\ tts_service' = IF e_twin = "" /\ e_tts = "" THEN "ready" ELSE tts_service
        /\ request' = [question |-> q, user_id |-> user_id,
                       index_ok |-> persist_dir = "populated",
                       upstream_ok |-> error \notin {MSG_UPSTREAM, MSG_KEY_ERROR},
                       error |-> error,
                       answer |-> answer_text,
                       audio |-> IF reached_tts THEN audio ELSE <<>>]
        /\ response' = IF error = "" THEN success_response(answer_text, audio)
                       ELSE error_response(error)
        /\ UNCHANGED <<buildVars, askVars, loopVars, llm_response>>

\* the requests, with every way the services may behave while one is served;
\* ask and text_to_audio have an outcome only if the call of ask binds
AskQuestion ==
    LET binds == CallBinds(AskParameters, AskCallPositional, AskCallKeywords)
    IN  \E q \in Questions, user_id \in UserIds, twin_ok \in BOOLEAN, tts_ok \in BOOLEAN,
           outcome \in (IF binds THEN AskOutcomes ELSE {NoResult}),
           audio \in (IF binds THEN AudioBytes \cup {<<>>} ELSE {<<>>}) :
            ask_question(q, user_id, twin_ok, tts_ok, outcome, audio)

\* the server and the index builder: no index yet, any set of documents
InitServe ==
    /\ data_processed \in SUBSET DocUniverse
    /\ persist_dir \in {"absent", "empty"}
    /\ collection = EmptyCollection
    /\ InitRest

NextServe ==
    \/ \E force_recreate \in BOOLEAN : CreateVectorStore(force_recreate)
    \/ AskQuestion

SpecServe == InitServe /\ [][NextServe]_vars


(***************************************************************************)
(* api/main.py under concurrent requests.                                  *)
(*                                                                         *)
(* ask_question is a coroutine function, so the server runs every request  *)
(* as a task of its one event loop.  The loop runs a task until the task   *)
(* awaits, and only then runs another.  The steps of the handler are       *)
(* separate actions here; the loop decides which task may take a step.     *)
(***************************************************************************)
\* the constructors awaited (or run in a worker thread)
AwaitPointsAtConstruction == {"init_twin", "init_tts"}

\* the positions of ask_question at which it awaits: its body has no await
AwaitPoints == {}

\* whether the loop may run a step of request r: its task has started and is
\* not over, and the loop is free or is running it
Scheduled(r) ==
    /\ handlers[r].pc \notin {"new", "done"}
    /\ running \in {0, r}

\* request r goes on at position to with its frame changed to f; the loop
\* keeps running it unless it awaits there
Goto(r, f, to) ==
    /\ handlers' = [handlers EXCEPT ![r] = [f EXCEPT !.pc = to]]
    /\ running' = IF to \in AwaitPoints THEN 0 ELSE r
    /\ UNCHANGED <<requests, request, response>>

\* request r, its frame being f, ends with the response resp (error: str(e)
\* of the exception caught, "" when none)
Finish(r, f, error, answer_text, audio, resp) ==
    /\ handlers' = [handlers EXCEPT ![r] = [f EXCEPT !.pc = "done", !.response = resp]]
    /\ running' = 0
    /\ requests' = requests + 1
    /\ request' = [question |-> f.question, user_id |-> f.user_id,
                   index_ok |-> persist_dir = "populated",
                   upstream_ok |-> error \notin {MSG_UPSTREAM, MSG_KEY_ERROR},
                   error |-> error, answer |-> answer_text, audio |-> audio]
    /\ response' = resp

\* the except branch of ask_question
Fail(r, f, error) == Finish(r, f, error, <<>>, <<>>, error_response(error))

\* a request arrives and the server creates its task; the requests are
\* numbered in the order of their arrival
Receive(r, q, user_id) ==
    /\ handlers[r].pc = "new"
    /\ \A earlier \in 1..(r - 1) : handlers[earlier].pc # "new"
    /\ handlers' = [handlers EXCEPT ![r].pc = "get_twin", ![r].question = q,
                                    ![r].user_id = user_id]
    /\ UNCHANGED <<buildVars, askVars, apiVars, llm_response, running, instances, attempts>>

\* get_digital_twin, the test  _digital_twin is None  and the return
GetDigitalTwin(r) ==
    /\ Scheduled(r) /\ handlers[r].pc = "get_twin"
    /\ IF digital_twin = "None"
       THEN Goto(r, handlers[r], "init_twin")
       ELSE Goto(r, [handlers[r] EXCEPT !.digital_twin = instances.digital_twin], "get_tts")
    /\ UNCHANGED <<buildVars, askVars, llm_response, digital_twin, tts_service,
                   instances, attempts>>

\* get_digital_twin, _digital_twin = DigitalTwin(): the handle is assigned
\* only when the constructor returns
InitDigitalTwin(r) ==
    /\ Scheduled(r) /\ handlers[r].pc = "init_twin"
    /\ attempts' = [attempts EXCEPT !.digital_twin = @ + 1]
    /\ LET f == [handlers[r] EXCEPT !.attempted = @ \cup {"digital_twin"}]
       IN  IF load_vector_store_raises(persist_dir)
           THEN /\ Fail(r, f, MSG_NO_INDEX)
                /\ UNCHANGED <<digital_twin, instances>>
           ELSE \/ /\ instances' = [instances EXCEPT !.digital_twin = @ + 1]
                   /\ digital_twin' = "ready"
                   /\ Goto(r, [f EXCEPT !.digital_twin = instances.digital_twin + 1],
                           "get_tts")
                \/ /\ Fail(r, f, MSG_UPSTREAM)
                   /\ UNCHANGED <<digital_twin, instances>>
    /\ UNCHANGED <<buildVars, askVars, llm_response, tts_service>>

\* get_tts_service, the test  _tts_service is None  and the return
GetTtsService(r) ==
    /\ Scheduled(r) /\ handlers[r].pc = "get_tts"
    /\ IF tts_service = "None"
       THEN Goto(r, handlers[r], "init_tts")
       ELSE Goto(r, [handlers[r] EXCEPT !.tts_service = instances.tts_service], "ask")
    /\ UNCHANGED <<buildVars, askVars, llm_response, digital_twin, tts_service,
                   instances, attempts>>

\* get_tts_service, _tts_service = CoquiTTSService(...)
InitTtsService(r) ==
    /\ Scheduled(r) /\ handlers[r].pc = "init_tts"
    /\ attempts' = [attempts EXCEPT !.tts_service = @ + 1]
    /\ LET f == [handlers[r] EXCEPT !.attempted = @ \cup {"tts_service"}]
       IN  \/ /\ instances' = [instances EXCEPT !.tts_service = @ + 1]
              /\ tts_service' = "ready"
              /\ Goto(r, [f EXCEPT !.tts_service = instances.tts_service + 1], "ask")
           \/ /\ Fail(r, f, MSG_UPSTREAM)
              /\ UNCHANGED <<tts_service, instances>>
    /\ UNCHANGED <<buildVars, askVars, llm_response, digital_twin>>

\* the rest of ask_question: digital_twin.ask(...), tts_service.text_to_audio(...)
\* and the return, or the except branch
AnswerAndSpeak(r) ==
    /\ Scheduled(r) /\ handlers[r].pc = "ask"
    /\ LET f == handlers[r]
           binds == CallBinds(AskParameters, AskCallPositional, AskCallKeywords)
       IN  IF ~binds THEN Fail(r, f, MSG_TYPE_ERROR)
           ELSE \E outcome \in AskOutcomes, audio \in AudioBytes \cup {<<>>} :
                    IF outcome.kind = "raise" THEN Fail(r, f, outcome.value[1])
                    ELSE IF audio = <<>> THEN Fail(r, f, MSG_UPSTREAM)
                    ELSE Finish(r, f, "", outcome.value, audio,
                                success_response(outcome.value, audio))
    /\ UNCHANGED <<buildVars, askVars, llm_response, digital_twin, tts_service,
                   instances, attempts>>

NextLoop ==
    \/ \E r \in 1..MaxConcurrent, q \in Questions, user_id \in UserIds : Receive(r, q, user_id)
    \/ \E r \in 1..MaxConcurrent :
          \/ GetDigitalTwin(r)
          \/ InitDigitalTwin(r)
          \/ GetTtsService(r)
          \/ InitTtsService(r)
          \/ AnswerAndSpeak(r)

\* the server on any index, with MaxConcurrent requests
SpecLoop == Init /\ [][NextLoop]_vars


(***************************************************************************)
(* Properties                                                              *)
(***************************************************************************)
Strategies == {"linkedin", "github", "medium", "general"}

\* the stages of a complete run through strategy s
PipelineOf(s) == <<"router", s, "answer", "speech_optimize">>

IsPrefix(a, b) == Len(a) <= Len(b) /\ SubSeq(b, 1, Len(a)) = a

\* C1: at every moment of an ask call the stages run so far are the start of
\* router, one strategy, answer, speech_optimize (so none is run twice or
\* retried); the strategy is the one the selected route names; and a call
\* reaches END, and returns, only after all four stages have run.
C1_FixedStageOrder ==
    /\ \E s \in Strategies : IsPrefix(trace, PipelineOf(s))
    /\ Len(trace) >= 2 => <<trace[2]>> = get_route(SubSeq(messages, 1, 2))
    /\ (pc = "END" \/ result.kind = "return") => Len(trace) = 4

\* a call that completed through the articles strategy
C1_Witness == result.kind = "return" /\ trace = PipelineOf("medium")

\* C3: after the router stage the route the orchestrator dispatches on is one
\* of the four categories, and no call fails for lack of a matching branch.
C3_RouteAlwaysBound ==
    /\ pc = "branch" =>
         get_route(messages) \in {<<"linkedin">>, <<"github">>, <<"medium">>, <<"general">>}
    /\ result # Raised("KeyError")

\* the lines of the response as the router reads them
ResponseLines == Split(Strip(llm_response), NL)

HasLabel(label) == \E i \in DOMAIN ResponseLines : StartsWith(ResponseLines[i], label)

\* the text that follows the label on the last line that starts with it
LabeledText(label) ==
    LET last == CHOOSE i \in DOMAIN ResponseLines :
                    /\ StartsWith(ResponseLines[i], label)
                    /\ \A j \in DOMAIN ResponseLines :
                         StartsWith(ResponseLines[j], label) => j <= i
    IN  Strip(Tail(ResponseLines[last]))

\* C4: once the router has run, the canonical query is the text labeled
\* TRANSLATED_QUERY: (the question when no line is so labeled), the route is
\* the text labeled ROUTE:, in lower case (general when no line is so
\* labeled), and no error was raised.
C4_ExactExtraction ==
    pc = "branch" =>
        LET query == IF HasLabel(TQ_LABEL) THEN LabeledText(TQ_LABEL) ELSE question
            route == IF HasLabel(ROUTE_LABEL) THEN Lower(LabeledText(ROUTE_LABEL))
                     ELSE <<"general">>
        IN  /\ english_query = query
            /\ messages[Len(messages)] = SystemMessage(RouteMarker(route, query))
            /\ result.kind # "raise"

IsRaisedMMR(call) ==
    call.method = "max_marginal_relevance_search" /\ call.outcome = "raise"

\* C5: a diversity-aware search that raised is followed by the plain search
\* with the same query, k = 8 and the medium filter; when that search
\* succeeds the strategy completes with the message built from its results;
\* and a plain search under the medium filter is issued only after a
\* diversity-aware search that raised.
C5_MediumFallback ==
    \A i \in DOMAIN calls :
        /\ IsRaisedMMR(calls[i]) =>
             /\ i + 1 \in DOMAIN calls
             /\ calls[i + 1].method = "similarity_search"
             /\ calls[i + 1].query = calls[i].query
             /\ calls[i + 1].k = 8 /\ calls[i].k = 8
             /\ calls[i + 1].filter = "medium" /\ calls[i].filter = "medium"
             /\ calls[i + 1].outcome = "ok" =>
                  /\ Len(trace) >= 2 /\ trace[2] = "medium"
                  /\ messages[3] = retrieve_medium(SubSeq(messages, 1, 2),
                                                   calls[i + 1].results)[3]
        /\ (calls[i].method = "similarity_search" /\ calls[i].filter = "medium") =>
             i > 1 /\ IsRaisedMMR(calls[i - 1])

\* the fallback found articles and the pipeline went on to the answer
C5_Witness ==
    /\ pc = "answer" /\ Len(calls) = 2
    /\ IsRaisedMMR(calls[1]) /\ calls[2].outcome = "ok" /\ calls[2].results # <<>>

NoResultsNotices == {"No articles found.", "No results found.", "No documents found."}

\* C6: a scoped strategy whose search returned nothing has appended one
\* marker message, and the message holds a no-results notice.
C6_NoResultsNotice ==
    \A s \in {"linkedin", "github", "medium"} :
        (Len(trace) >= 2 /\ trace[2] = s /\ calls[Len(calls)].results = <<>>) =>
            /\ Len(messages) >= 3
            /\ messages[3].type = "system"
            /\ \E i \in DOMAIN messages[3].content :
                 messages[3].content[i] \in NoResultsNotices

\* C7, one step of an ask call: a node other than speech_optimize adds one
\* message at the end, speech_optimize replaces the last message, and in both
\* cases the earlier messages stay; a step that runs no node leaves the list.
C7_Step ==
    pc # "idle" =>
        IF trace' = trace THEN messages' = messages
        ELSE IF pc = "speech_optimize"
        THEN /\ Len(messages') = Len(messages)
             /\ \A i \in 1..(Len(messages) - 1) : messages'[i] = messages[i]
        ELSE /\ Len(messages') = Len(messages) + 1
             /\ SubSeq(messages', 1, Len(messages)) = messages

\* C7: the message list is append-only within an ask call, but for the
\* replacement of the last message by the speech-optimization stage.
C7_AppendOnly == [][C7_Step]_vars

\* the rewrite has replaced the raw answer: four messages, the last one changed
C7_Witness ==
    /\ pc = "END" /\ Len(messages) = 4
    /\ messages[4].type = "ai" /\ messages[4].content # raw_answer

\* C2: a request served with the index in place and no upstream failure gets
\* a success response with the orchestrator's answer and the hex encoding of
\* the audio synthesized from it.
C2_AskSucceeds ==
    (requests > 0 /\ request.index_ok /\ request.upstream_ok) =>
        /\ response.status = 200
        /\ response.text = request.answer
        /\ response.audio = Hex(request.audio)

\* C8: a request during which an exception was raised gets a server error
\* carrying the exception's message (the missing-index message when the
\* orchestrator could not be loaded for lack of an index); a success response
\* is given only when none was raised, and holds both text and audio.
C8_NoPartialSuccess ==
    requests > 0 =>
        /\ response.status \in {200, 500}
        /\ request.error # "" => response = [status |-> 500, detail |-> request.error]
        /\ (~request.index_ok /\ digital_twin = "None") =>
             response = [status |-> 500, detail |-> MSG_NO_INDEX]
        /\ response.status = 200 =>
             /\ request.error = ""
             /\ DOMAIN response = {"status", "text", "audio"}

\* a request made before any index was built was answered with the server
\* error carrying the missing-index message
C8_Witness ==
    /\ requests > 0 /\ ~request.index_ok /\ request.error = MSG_NO_INDEX
    /\ response = [status |-> 500, detail |-> MSG_NO_INDEX]

\* C9, one step: once a build has succeeded, a run without the force flag
\* skips: it loads nothing, adds nothing and leaves directory and collection.
C9_Step ==
    built =>
        /\ persist_dir = "populated"
        /\ (builds' = builds + 1 /\ ~last_build'.force) =>
             /\ last_build'.outcome = "skipped"
             /\ last_build'.loaded = 0 /\ last_build'.added = 0
             /\ collection' = collection
             /\ persist_dir' = persist_dir

\* C9: after a first successful build, builds without the force flag are no-ops.
C9_UnforcedBuildIsNoOp == [][C9_Step]_vars

\* a build without the flag was skipped after a successful one, documents present
C9_Witness ==
    /\ built /\ builds >= 2 /\ data_processed # {}
    /\ last_build.outcome = "skipped" /\ ~last_build.force

\* C10: once built, the collection holds exactly one chunk per loaded document.
C10_OneChunkPerDocument ==
    built => \A d \in DocUniverse :
                collection[d] = (IF d \in data_processed THEN 1 ELSE 0)

\* C11: the answer returned holds none of the characters * ` _ # whatever the
\* rewrite was, and holds the words of the rewrite in their order.
C11_NoMarkupArtifact ==
    result.kind = "return" =>
        /\ \A i \in DOMAIN result.value : result.value[i] \notin MarkupTok
        /\ SelectSeq(result.value, LAMBDA t : t = "She")
             = SelectSeq(llm_response, LAMBDA t : t = "She")

\* C12, the start of a call: whatever the earlier calls left, the call starts
\* from a message list holding only its question, an empty canonical query
\* and an empty raw answer, with no stage run and no result.
C12_Start ==
    asks' = asks + 1 =>
        /\ messages' = <<HumanMessage(question')>>
        /\ english_query' = <<>> /\ raw_answer' = <<>>
        /\ trace' = <<>> /\ calls' = <<>> /\ result' = NoResult /\ prompt' = <<>>

\* C12, during and after a call: the conversation state holds what the stages
\* of this call made of its question and of the responses they received, and
\* nothing else: one message per stage run after the question (the rewrite in
\* place of the raw answer), a canonical query only once the router has run,
\* searches on that query only, a raw answer only once the answer stage has
\* run, and the last message as the value returned.
C12_OwnStateOnly ==
    asks > 0 =>
        LET ran(node) == \E i \in DOMAIN trace : trace[i] = node
            rewritten == IF ran("speech_optimize") THEN 1 ELSE 0
        IN  /\ messages[1] = HumanMessage(question)
            /\ Len(messages) = 1 + Len(trace) - rewritten
            /\ ~ran("router") => english_query = <<>>
            /\ ran("router") =>
                  /\ messages[2].type = "system"
                  /\ LET marker == messages[2].content
                         n == Len(marker) - Len(english_query) - 8
                     IN  /\ n >= 0
                         /\ marker = RouteMarker(SubSeq(marker, 3, n + 2), english_query)
            /\ \A i \in DOMAIN calls : calls[i].query = english_query
            /\ ~ran("answer") => raw_answer = <<>>
            /\ (ran("answer") /\ ~ran("speech_optimize")) =>
                  messages[Len(messages)] = AIMessage(raw_answer)
            /\ ran("speech_optimize") =>
                  \E content \in SpeechResponses :
                      messages[Len(messages)] = AIMessage(Cleanup(content))
            /\ result.kind = "return" => result.value = messages[Len(messages)].content

\* C12: ask calls on one orchestrator are independent.
C12_IndependentAsks == []C12_OwnStateOnly /\ [][C12_Start]_vars

\* a second call on the same orchestrator has returned its answer
C12_Witness == asks = 2 /\ result.kind = "return" /\ Len(trace) = 4

Services == {"digital_twin", "tts_service"}

\* the module-level handle of a service
Handle(svc) == IF svc = "digital_twin" THEN digital_twin ELSE tts_service

\* the local of request r bound to the service
Local(r, svc) == IF svc = "digital_twin" THEN handlers[r].digital_twin
                 ELSE handlers[r].tts_service

\* C13, in every state: a service has been constructed at most once; its
\* handle is set exactly when a construction has succeeded; every request
\* that got the service holds that one object; and a request that ended
\* while the handle it needed was unset has attempted the construction.
C13_OneInstance ==
    \A svc \in Services :
        /\ instances[svc] <= 1
        /\ Handle(svc) = "ready" <=> instances[svc] = 1
        /\ \A r \in 1..MaxConcurrent :
              /\ Local(r, svc) \in {0, instances[svc]}
              /\ svc \in handlers[r].attempted /\ handlers[r].pc # "done"
                    => Local(r, svc) = 1
        /\ \A r \in 1..MaxConcurrent :
              (handlers[r].pc = "done" /\ digital_twin = "None")
                  => "digital_twin" \in handlers[r].attempted
        /\ \A r \in 1..MaxConcurrent :
              (handlers[r].pc = "done" /\ tts_service = "None"
                  /\ handlers[r].digital_twin # 0)
                  => "tts_service" \in handlers[r].attempted

\* C13, one step: a handle that is set stays set and its constructor is not
\* called again; a constructor call that fails leaves the handle unset.
C13_Step ==
    \A svc \in Services :
        /\ Handle(svc) = "ready" =>
              /\ Handle(svc)' = "ready"
              /\ instances'[svc] = instances[svc]
              /\ attempts'[svc] = attempts[svc]
        /\ (attempts'[svc] > attempts[svc] /\ instances'[svc] = instances[svc]) =>
              Handle(svc)' = "None"

\* C13: each lazily initialized handle is constructed at most once, whatever
\* the order in which the event loop serves the requests in flight.
C13_HandlesConstructedOnce == []C13_OneInstance /\ [][C13_Step]_vars

\* three requests in flight: the first failed to construct the orchestrator,
\* the second constructed it, the third used the object the second made
C13_Witness ==
    /\ \A r \in 1..3 : handlers[r].pc = "done"
    /\ handlers[1].digital_twin = 0 /\ "digital_twin" \in handlers[1].attempted
    /\ handlers[2].digital_twin = 1 /\ "digital_twin" \in handlers[2].attempted
    /\ handlers[3].digital_twin = 1 /\ handlers[3].attempted = {}
    /\ instances.digital_twin = 1 /\ attempts.digital_twin = 2

\* C14: the context block of the prompt the answer node sends is the message
\* the retrieval strategy of this call appended, and nothing else: neither
\* the route marker nor the question is among the contexts collected.
C14_ContextIsStrategyMessage ==
    prompt # <<>> =>
        LET kept == contexts(SubSeq(messages, 1, 3))
        IN  /\ prompt[1].content = system_prompt(messages[3].content)
            /\ \A i \in DOMAIN kept :
                  kept[i] \notin {messages[1].content, messages[2].content}

=============================================================================
